---- MODULE Spec2Model ----
(***************************************************************************)
(* Model of the OllamaUI chat client: the assistant-content classifier     *)
(* (lib/utils.ts parseAssistantContent) and the ChatInterface component's  *)
(* streaming, debounce and persistence logic.                              *)
(*                                                                         *)
(* A JavaScript string is a sequence of one-character strings.  Line       *)
(* indices are 0-based as in the source: lines[i] is At(lines, i).         *)
(***************************************************************************)
EXTENDS Integers, Sequences, FiniteSets, TLC

(***************************************************************************)
(* String primitives of the JavaScript runtime used by the source.         *)
(***************************************************************************)
NL == "\n"
WhiteSpace == {" ", "\n", "\t", "\r"}
LowerLetters == <<"a","b","c","d","e","f","g","h","i","j","k","l","m",
                  "n","o","p","q","r","s","t","u","v","w","x","y","z">>
UpperLetters == <<"A","B","C","D","E","F","G","H","I","J","K","L","M",
                  "N","O","P","Q","R","S","T","U","V","W","X","Y","Z">>
Letters == {LowerLetters[k] : k \in 1..26} \cup {UpperLetters[k] : k \in 1..26}
Digits == {"0","1","2","3","4","5","6","7","8","9"}
HexDigits == Digits \cup {"a","b","c","d","e","f","A","B","C","D","E","F"}

Undefined == <<"undefined">>

At(seq, idx) == seq[idx + 1]

Slice(seq, from, to) == SubSeq(seq, from + 1, to)

Min(S) == CHOOSE x \in S : \A y \in S : x <= y

Max(S) == CHOOSE x \in S : \A y \in S : x >= y

StartsWith(s, p) == Len(s) >= Len(p) /\ SubSeq(s, 1, Len(p)) = p

EndsWith(s, p) == Len(s) >= Len(p) /\ SubSeq(s, Len(s) - Len(p) + 1, Len(s)) = p

MinOr(S, none) == IF S = {} THEN none ELSE Min(S)

\* 1-based position of the first occurrence of p in s at or after from; 0 if none
IndexOf(s, p, from) ==
  MinOr({k \in from..(Len(s) - Len(p) + 1) : SubSeq(s, k, k + Len(p) - 1) = p}, 0)

Includes(s, p) == IndexOf(s, p, 1) # 0

\* keep: the positions of the characters that are not white space
TrimTo(s, keep) == IF keep = {} THEN <<>> ELSE SubSeq(s, Min(keep), Max(keep))

Trim(s) == TrimTo(s, {k \in 1..Len(s) : s[k] \notin WhiteSpace})

RECURSIVE Split(_, _)
\* k: the position of the first separator, 0 if none
SplitAt(s, sep, k) ==
  IF k = 0 THEN <<s>>
  ELSE <<SubSeq(s, 1, k - 1)>> \o Split(SubSeq(s, k + Len(sep), Len(s)), sep)

Split(s, sep) == SplitAt(s, sep, IndexOf(s, sep, 1))

RECURSIVE Join(_, _)
Join(parts, sep) ==
  IF Len(parts) = 0 THEN <<>>
  ELSE IF Len(parts) = 1 THEN parts[1]
  ELSE parts[1] \o sep \o Join(Tail(parts), sep)

ToLowerChar(c) ==
  IF \E k \in 1..26 : UpperLetters[k] = c
  THEN LowerLetters[CHOOSE k \in 1..26 : UpperLetters[k] = c] ELSE c

ToUpperChar(c) ==
  IF \E k \in 1..26 : LowerLetters[k] = c
  THEN UpperLetters[CHOOSE k \in 1..26 : LowerLetters[k] = c] ELSE c

ToLowerCase(s) == [k \in 1..Len(s) |-> ToLowerChar(s[k])]

ToUpperCase(s) == [k \in 1..Len(s) |-> ToUpperChar(s[k])]

(***************************************************************************)
(* JSON.parse, as a recogniser: JSONParses(s) iff JSON.parse(s) returns.   *)
(* Each J* operator takes a 1-based position and yields the position after *)
(* the construct, or 0 when the text is not well formed.                   *)
(***************************************************************************)
SkipWs(s, p) == MinOr({k \in p..Len(s) : s[k] \notin WhiteSpace}, Len(s) + 1)

DigitsEnd(s, p) == MinOr({k \in p..Len(s) : s[k] \notin Digits}, Len(s) + 1)

IsDigitAt(s, p) == p <= Len(s) /\ s[p] \in Digits

RECURSIVE JStringBody(_, _)
JStringBody(s, p) ==
  IF p > Len(s) THEN 0
  ELSE IF s[p] = "\"" THEN p + 1
  ELSE IF s[p] = "\\" THEN
    IF p + 1 > Len(s) THEN 0
    ELSE IF s[p + 1] \in {"\"", "\\", "/", "b", "f", "n", "r", "t"} THEN JStringBody(s, p + 2)
    ELSE IF s[p + 1] = "u" /\ p + 5 <= Len(s) /\ \A k \in (p + 2)..(p + 5) : s[k] \in HexDigits
         THEN JStringBody(s, p + 6)
    ELSE 0
  ELSE IF s[p] \in {"\n", "\t", "\r"} THEN 0
  ELSE JStringBody(s, p + 1)

\* a number: sign, integer part, fraction, exponent
JExponent(s, p) == IF IsDigitAt(s, p) THEN DigitsEnd(s, p) ELSE 0

JAfterFraction(s, p) ==
  IF p = 0 THEN 0
  ELSE IF p <= Len(s) /\ s[p] \in {"e", "E"}
       THEN JExponent(s, IF p + 1 <= Len(s) /\ s[p + 1] \in {"+", "-"} THEN p + 2 ELSE p + 1)
  ELSE p

JAfterInteger(s, p) ==
  JAfterFraction(s, IF p <= Len(s) /\ s[p] = "."
                    THEN (IF IsDigitAt(s, p + 1) THEN DigitsEnd(s, p + 1) ELSE 0)
                    ELSE p)

JAfterSign(s, p) ==
  IF ~IsDigitAt(s, p) THEN 0
  ELSE JAfterInteger(s, IF s[p] = "0" THEN p + 1 ELSE DigitsEnd(s, p))

JNumber(s, p) == JAfterSign(s, IF s[p] = "-" THEN p + 1 ELSE p)

JLiteral(s, p, word) ==
  IF p + Len(word) - 1 <= Len(s) /\ SubSeq(s, p, p + Len(word) - 1) = word
  THEN p + Len(word) ELSE 0

RECURSIVE JValue(_, _), JMembers(_, _), JElements(_, _)
\* a member of an object: key at q, colon at c, value ending before v, then e
JMemberEnd(s, e) ==
  IF e > Len(s) THEN 0
  ELSE IF s[e] = "," THEN JMembers(s, SkipWs(s, e + 1))
  ELSE IF s[e] = "}" THEN e + 1
  ELSE 0

JMemberValue(s, v) == IF v = 0 THEN 0 ELSE JMemberEnd(s, SkipWs(s, v))

JMemberColon(s, c) ==
  IF c > Len(s) \/ s[c] # ":" THEN 0 ELSE JMemberValue(s, JValue(s, SkipWs(s, c + 1)))

JMemberKey(s, r) == IF r = 0 THEN 0 ELSE JMemberColon(s, SkipWs(s, r))

JMembers(s, q) ==
  IF q > Len(s) \/ s[q] # "\"" THEN 0 ELSE JMemberKey(s, JStringBody(s, q + 1))

JElementEnd(s, e) ==
  IF e > Len(s) THEN 0
  ELSE IF s[e] = "," THEN JElements(s, SkipWs(s, e + 1))
  ELSE IF s[e] = "]" THEN e + 1
  ELSE 0

JElementValue(s, v) == IF v = 0 THEN 0 ELSE JElementEnd(s, SkipWs(s, v))

JElements(s, q) == JElementValue(s, JValue(s, q))

JObject(s, q) == IF q <= Len(s) /\ s[q] = "}" THEN q + 1 ELSE JMembers(s, q)

JArray(s, q) == IF q <= Len(s) /\ s[q] = "]" THEN q + 1 ELSE JElements(s, q)

JValue(s, p) ==
  IF p > Len(s) THEN 0
  ELSE IF s[p] = "{" THEN JObject(s, SkipWs(s, p + 1))
  ELSE IF s[p] = "[" THEN JArray(s, SkipWs(s, p + 1))
  ELSE IF s[p] = "\"" THEN JStringBody(s, p + 1)
  ELSE IF s[p] = "-" \/ s[p] \in Digits THEN JNumber(s, p)
  ELSE IF s[p] = "t" THEN JLiteral(s, p, <<"t","r","u","e">>)
  ELSE IF s[p] = "f" THEN JLiteral(s, p, <<"f","a","l","s","e">>)
  ELSE IF s[p] = "n" THEN JLiteral(s, p, <<"n","u","l","l">>)
  ELSE 0

\* v: the position after the value; only white space may follow
JWhole(s, v) == v # 0 /\ SkipWs(s, v) = Len(s) + 1

JSONParses(s) == JWhole(s, JValue(s, SkipWs(s, 1)))

(***************************************************************************)
(* The classifier: lib/utils.ts parseAssistantContent and its helpers.     *)
(***************************************************************************)
\* the grave accent (U+0060); the token stands for that one character
BackTick == "U+0060"
Fence == <<BackTick, BackTick, BackTick>>
ShellLanguages == {<<"b","a","s","h">>, <<"s","h">>, <<"s","h","e","l","l">>, <<"z","s","h">>, <<"f","i","s","h">>, <<"c","m","d">>, <<"p","o","w","e","r","s","h","e","l","l">>}
TextLanguage == <<"t","e","x","t">>
CommandSuffix == <<" ","C","o","m","m","a","n","d">>
CodeSuffix == <<" ","C","o","d","e">>
TitleJSON == <<"J","S","O","N"," ","R","e","s","p","o","n","s","e">>
TitleXML == <<"X","M","L"," ","R","e","s","p","o","n","s","e">>
TitleCommand == <<"C","o","m","m","a","n","d">>
TitleMath == <<"M","a","t","h","e","m","a","t","i","c","a","l"," ","E","x","p","r","e","s","s","i","o","n">>
TitleTable == <<"T","a","b","l","e">>

\* the value a helper returns for "no region here"
Null == [content |-> <<>>, endIndex |-> -1]

Block(type, content, language, title) ==
  [type |-> type, content |-> content, language |-> language, title |-> title]

\* a lookup that forgets to lower-case the language
determineCodeBlockTypeCaseSensitive(language) ==
  IF language \in ShellLanguages THEN "command" ELSE "code"

determineCodeBlockType(language) ==
  IF ToLowerCase(language) \in ShellLanguages THEN "command" ELSE "code"

getCodeBlockTitle(language, type) ==
  IF type = "command" THEN ToUpperCase(language) \o CommandSuffix
  ELSE (IF Len(language) = 0 THEN <<>>
        ELSE <<ToUpperChar(language[1])>> \o SubSeq(language, 2, Len(language))) \o CodeSuffix

isLikelyJSON(line, lines, startIndex) ==
  JSONParses(Join(Slice(lines, startIndex,
                        IF startIndex + 10 < Len(lines) THEN startIndex + 10 ELSE Len(lines)),
                  <<>>))

\* one character of extractJSON's inner loop; st = [brace, bracket, inString, escaped]
JSONChar(st, char) ==
  IF st.escaped THEN [st EXCEPT !.escaped = FALSE]
  ELSE IF char = "\\" THEN [st EXCEPT !.escaped = TRUE]
  ELSE IF char = "\"" THEN [st EXCEPT !.inString = ~st.inString]
  ELSE IF ~st.inString THEN
    [st EXCEPT !.brace = IF char = "{" THEN @ + 1 ELSE IF char = "}" THEN @ - 1 ELSE @,
               !.bracket = IF char = "[" THEN @ + 1 ELSE IF char = "]" THEN @ - 1 ELSE @]
  ELSE st

RECURSIVE JSONLine(_, _, _)
JSONLine(st, line, p) ==
  IF p > Len(line) THEN st ELSE JSONLine(JSONChar(st, line[p]), line, p + 1)

RECURSIVE extractJSONFrom(_, _, _, _)
\* the check at the end of one line: st is the scanner after the line,
\* content the lines pushed so far joined by '\n'
extractJSONCheck(lines, startIndex, idx, st, content) ==
  IF st.brace = 0 /\ st.bracket = 0 /\ JSONParses(content)
  THEN [content |-> content, endIndex |-> idx + 1]
  ELSE extractJSONFrom(lines, startIndex, idx + 1, st)

extractJSONFrom(lines, startIndex, idx, st) ==
  IF idx >= Len(lines) THEN Null
  ELSE extractJSONCheck(lines, startIndex, idx, JSONLine(st, At(lines, idx), 1),
                        Join(Slice(lines, startIndex, idx + 1), <<NL>>))

extractJSON(lines, startIndex) ==
  extractJSONFrom(lines, startIndex, startIndex,
                  [brace |-> 0, bracket |-> 0, inString |-> FALSE, escaped |-> FALSE])

\* /<[a-zA-Z][^>]*>/
isLikelyXML(line) ==
  \E k \in 1..Len(line) :
     /\ line[k] = "<"
     /\ k + 1 <= Len(line) /\ line[k + 1] \in Letters
     /\ IndexOf(line, <<">">>, k + 2) # 0

\* all matches of /<([a-zA-Z][^>\s]*)[^>]*>/g at or after position from
RECURSIVE OpenTags(_, _)
\* the match from position k to position e, and the matches after it
TagsAt(line, k, e, rest) == <<SubSeq(line, k, e)>> \o rest

OpenTagsFirst(line, k, e) == TagsAt(line, k, e, OpenTags(line, e + 1))

OpenTagsFrom(line, k) ==
  IF k = 0 THEN <<>> ELSE OpenTagsFirst(line, k, IndexOf(line, <<">">>, k + 2))

OpenTags(line, from) ==
  OpenTagsFrom(line, MinOr({k \in from..Len(line) :
                              /\ line[k] = "<"
                              /\ k + 1 <= Len(line) /\ line[k + 1] \in Letters
                              /\ IndexOf(line, <<">">>, k + 2) # 0}, 0))

\* all matches of /<\/([a-zA-Z][^>]*)\s*>/g at or after position from
RECURSIVE CloseTags(_, _)
CloseTagsFirst(line, k, e) == TagsAt(line, k, e, CloseTags(line, e + 1))

CloseTagsFrom(line, k) ==
  IF k = 0 THEN <<>> ELSE CloseTagsFirst(line, k, IndexOf(line, <<">">>, k + 3))

CloseTags(line, from) ==
  CloseTagsFrom(line, MinOr({k \in from..Len(line) :
                               /\ line[k] = "<"
                               /\ k + 2 <= Len(line) /\ line[k + 1] = "/" /\ line[k + 2] \in Letters
                               /\ IndexOf(line, <<">">>, k + 3) # 0}, 0))

\* tag.match(/<([a-zA-Z][^>\s]*)/)?.[1]
OpenTagName(tag) ==
  SubSeq(tag, 2, Min({k \in 2..Len(tag) : tag[k] = ">" \/ tag[k] \in WhiteSpace}) - 1)

\* tag.match(/<\/([a-zA-Z][^>]*)/)?.[1]
CloseTagName(tag) == SubSeq(tag, 3, Len(tag) - 1)

RECURSIVE PushOpenTags(_, _)
PushOpenTags(tagStack, tags) ==
  IF tags = <<>> THEN tagStack
  ELSE PushOpenTags(IF ~EndsWith(tags[1], <<"/", ">">>)
                    THEN Append(tagStack, OpenTagName(tags[1])) ELSE tagStack,
                    Tail(tags))

RECURSIVE PopCloseTags(_, _)
PopCloseTags(tagStack, tags) ==
  IF tags = <<>> THEN tagStack
  ELSE PopCloseTags(IF Len(tagStack) > 0 /\ tagStack[Len(tagStack)] = CloseTagName(tags[1])
                    THEN SubSeq(tagStack, 1, Len(tagStack) - 1) ELSE tagStack,
                    Tail(tags))

\* the tag stack after one line
TagStackAfter(tagStack, line) ==
  PopCloseTags(PushOpenTags(tagStack, OpenTags(line, 1)), CloseTags(line, 1))

RECURSIVE extractXMLFrom(_, _, _, _)
extractXMLCheck(lines, startIndex, idx, tagStack) ==
  IF Len(tagStack) = 0
  THEN [content |-> Join(Slice(lines, startIndex, idx + 1), <<NL>>), endIndex |-> idx + 1]
  ELSE extractXMLFrom(lines, startIndex, idx + 1, tagStack)

extractXMLFrom(lines, startIndex, idx, tagStack) ==
  IF idx >= Len(lines) THEN Null
  ELSE extractXMLCheck(lines, startIndex, idx, TagStackAfter(tagStack, At(lines, idx)))

extractXML(lines, startIndex) == extractXMLFrom(lines, startIndex, startIndex, <<>>)

NonBlankParts(parts) == Cardinality({k \in 1..Len(parts) : Trim(parts[k]) # <<>>})

isTableRow(line) == NonBlankParts(Split(line, <<"|">>)) >= 2

IsTableLine(line) == Includes(line, <<"|">>) /\ isTableRow(line)

IsRowLine(raw) == IsTableLine(Trim(raw))

\* number of lines pushed to tableLines by extractTable's loop
TableRun(lines, startIndex) ==
  MinOr({k \in startIndex..(Len(lines) - 1) : ~IsRowLine(At(lines, k))}, Len(lines))
    - startIndex

TableOf(lines, startIndex, n) ==
  IF n >= 2
  THEN [content |-> Join(Slice(lines, startIndex, startIndex + n), <<NL>>),
        endIndex |-> startIndex + n]
  ELSE Null

extractTable(lines, startIndex) == TableOf(lines, startIndex, TableRun(lines, startIndex))

IsMathLine(line) ==
  \/ Includes(line, <<"\\", "[">>) /\ Includes(line, <<"\\", "]">>)
  \/ Includes(line, <<"$", "$">>) /\ Len(Split(line, <<"$", "$">>)) > 2

IsCommandLine(line) == StartsWith(line, <<"$", " ">>) \/ StartsWith(line, <<"#", " ">>)

IsSpecialTrimmed(trimmed) ==
  \/ StartsWith(trimmed, Fence)
  \/ IsCommandLine(trimmed)
  \/ StartsWith(trimmed, <<"{">>) \/ StartsWith(trimmed, <<"[">>)
  \/ StartsWith(trimmed, <<"<">>)
  \/ Includes(trimmed, <<"|">>)
  \/ IsMathLine(trimmed)

isSpecialLine(line) == IsSpecialTrimmed(Trim(line))

\* index of the closing fence (or lines.length) for a fence opened before idx
FenceEnd(lines, idx) ==
  MinOr({k \in idx..(Len(lines) - 1) : StartsWith(Trim(At(lines, k)), Fence)}, Len(lines))

\* index at which the text-collecting loop stops
TextEnd(lines, idx) ==
  MinOr({k \in idx..(Len(lines) - 1) : isSpecialLine(At(lines, k))}, Len(lines))

FenceLanguage(rest) == IF rest = <<>> THEN TextLanguage ELSE rest

CodeBlock(codeContent, language, outputType) ==
  Block(outputType, codeContent, language, getCodeBlockTitle(language, outputType))

\* e: the index of the closing fence; the code lines are those in between
FenceClosed(lines, idx, blks, language, e) ==
  [i |-> e + 1,
   blocks |-> IF Len(Slice(lines, idx + 1, e)) > 0
              THEN Append(blks, CodeBlock(Join(Slice(lines, idx + 1, e), <<NL>>), language,
                                          determineCodeBlockType(language)))
              ELSE blks]

FenceBranch(lines, idx, blks, line) ==
  FenceClosed(lines, idx, blks, FenceLanguage(Trim(SubSeq(line, 4, Len(line)))),
              FenceEnd(lines, idx + 1))

\* e: the index at which the text loop stopped
TextCollected(idx, blks, e, textContent) ==
  [i |-> e,
   blocks |-> IF e > idx /\ textContent # <<>>
              THEN Append(blks, Block("text", textContent, Undefined, Undefined))
              ELSE blks]

\* a text loop that loses the line it starts on
TextFromDroppingFirst(lines, idx, blks, e) ==
  TextCollected(idx, blks, e, Trim(Join(Slice(lines, idx + 1, e), <<NL>>)))

TextFrom(lines, idx, blks, e) ==
  TextCollected(idx, blks, e, Trim(Join(Slice(lines, idx, e), <<NL>>)))

TextBranch(lines, idx, blks) == TextFrom(lines, idx, blks, TextEnd(lines, idx))

\* The branches of one iteration of the outer while loop, in the order of the
\* code; a result of Null is a rule that falls through.
TableBranch(lines, idx, blks, tableResult) ==
  IF tableResult # Null
  THEN [i |-> tableResult.endIndex,
        blocks |-> Append(blks, Block("table", tableResult.content, Undefined, TitleTable))]
  ELSE TextBranch(lines, idx, blks)

CommandBranch(lines, idx, blks, line) ==
  IF IsCommandLine(line)
  THEN [i |-> idx + 1,
        blocks |-> Append(blks, Block("command", SubSeq(line, 3, Len(line)), Undefined,
                                      TitleCommand))]
  ELSE IF IsMathLine(line)
  THEN [i |-> idx + 1,
        blocks |-> Append(blks, Block("math", line, Undefined, TitleMath))]
  ELSE TableBranch(lines, idx, blks,
                   IF IsTableLine(line) THEN extractTable(lines, idx) ELSE Null)

XMLBranch(lines, idx, blks, line, xmlResult) ==
  IF xmlResult # Null
  THEN [i |-> xmlResult.endIndex,
        blocks |-> Append(blks, Block("xml", xmlResult.content, Undefined, TitleXML))]
  ELSE CommandBranch(lines, idx, blks, line)

JSONBranch(lines, idx, blks, line, jsonResult) ==
  IF jsonResult # Null
  THEN [i |-> jsonResult.endIndex,
        blocks |-> Append(blks, Block("json", jsonResult.content, Undefined, TitleJSON))]
  ELSE XMLBranch(lines, idx, blks, line,
                 IF /\ StartsWith(line, <<"<">>)
                    /\ ~StartsWith(line, <<"<", "!", "-", "-">>)
                    /\ isLikelyXML(line)
                 THEN extractXML(lines, idx) ELSE Null)

LineBranch(lines, idx, blks, line) ==
  IF StartsWith(line, Fence) THEN FenceBranch(lines, idx, blks, line)
  ELSE JSONBranch(lines, idx, blks, line,
                  IF /\ StartsWith(line, <<"{">>) \/ StartsWith(line, <<"[">>)
                     /\ isLikelyJSON(line, lines, idx)
                  THEN extractJSON(lines, idx) ELSE Null)

\* one iteration of the outer while loop of parseAssistantContent
OuterIteration(lines, idx, blks) == LineBranch(lines, idx, blks, Trim(At(lines, idx)))

\* the statements after the loop: the fallback block and the returned object
FinishParse(content, blks) ==
  [blocks |-> IF Len(blks) = 0
              THEN <<Block("text", Trim(content), Undefined, Undefined)>> ELSE blks,
   rawContent |-> content]

\* What a call parseAssistantContent(content) evaluates to.  An iteration that
\* leaves the index where it was repeats forever: the call does not return,
\* which is the value Hang.
Hang == [blocks |-> <<>>, rawContent |-> Undefined]

RECURSIVE RunParse(_, _, _, _)
\* r: the index and the blocks after the iteration at idx
RunNext(content, lines, idx, r) ==
  IF r.i = idx THEN Hang ELSE RunParse(content, lines, r.i, r.blocks)

RunParse(content, lines, idx, blks) ==
  IF idx >= Len(lines) THEN FinishParse(content, blks)
  ELSE RunNext(content, lines, idx, OuterIteration(lines, idx, blks))

parseAssistantContent(content) == RunParse(content, Split(content, <<NL>>), 0, <<>>)

(***************************************************************************)
(* The classifier as a process: one step per iteration of the outer loop.  *)
(***************************************************************************)
VARIABLES content, i, blocks, stall, ppc, result

pvars == <<content, i, blocks, stall, ppc, result>>

MaxLines == 3
MaxStall == 1

ParseLines ==
  { <<>>,
    <<"a", "b">>,
    <<"{">>,
    <<"}">>,
    <<"\"", "a", "\"", ":", " ", "1">>,
    <<"{", "\"", "a", "\"", ":", " ", "1", "}">>,
    <<"{", "a">>,
    <<"a", "|", "b">>,
    <<"a", "|">>,
    <<"<", "a", ">">>,
    <<"<", "/", "a", ">">>,
    <<"<">>,
    <<BackTick, BackTick, BackTick>>,
    <<BackTick, BackTick, BackTick, "s", "h">>,
    <<BackTick, BackTick, BackTick, "S", "h">>,
    <<BackTick, BackTick, BackTick, "s", "h", "e", "l", "l">>,
    <<BackTick, BackTick, BackTick, "p", "y">>,
    <<"$", " ", "l", "s">>,
    <<"$", "$", "x", "$", "$">> }

RECURSIVE LineSeqs(_)
LineSeqs(n) ==
  IF n = 0 THEN {<<>>}
  ELSE LET shorter == LineSeqs(n - 1)
       IN shorter \cup {Append(ls, l) : ls \in {x \in shorter : Len(x) = n - 1}, l \in ParseLines}

ParseInputs == {Join(ls, <<NL>>) : ls \in LineSeqs(MaxLines) \ {<<>>}}

NoResult == [blocks |-> <<>>, rawContent |-> <<>>]

(***************************************************************************)
(* The ChatInterface component (components/ChatInterface.tsx, the          *)
(* forwardRef version) with the page and history panel that drive it.      *)
(* Every handler is an operator from the component state st to the state   *)
(* after the handler and the React effects it triggers have run.           *)
(***************************************************************************)
VARIABLES selectedModel, newChat, ragEnabled, chatHistory, isLoading, error,
          streamingRef, currentConversationId, isLoadingExistingConversation,
          flagTimers, streamingBuffer, debounceTimeout, ws, rag, localStorage,
          nextTid, nextConv, userOps, crashed, hung,
          quotaFailures, pageConversationId, historyConversationId, conversations,
          systemPrompt, debounceAge, unflushedAge, deleted,
          modelSelection, storedModelString

cvars == <<selectedModel, newChat, ragEnabled, chatHistory, isLoading, error,
           streamingRef, currentConversationId, isLoadingExistingConversation,
           flagTimers, streamingBuffer, debounceTimeout, ws, rag, localStorage,
           nextTid, nextConv, userOps, crashed, hung,
           quotaFailures, pageConversationId, historyConversationId, conversations,
           systemPrompt, debounceAge, unflushedAge, deleted,
           modelSelection, storedModelString>>

MaxSends == 2
MaxFrags == 1
MaxConvs == 2
MaxFlagTimers == 1
MaxUserOps == 2
MaxQuotaFailures == 2
\* the bounds of the runs without page and panel operations
MaxStreamSends == 3
MaxStreamFrags == 2
MaxWait == 3
\* the 50 ms of the debounce, in clock ticks of 25 ms
DebounceDelay == 2

Models == {"m1", "m2"}
NoModel == "null"
Tids == 1..Max({MaxSends, MaxStreamSends})
ConvIds == 1..MaxConvs
\* the k-th fragment a stream delivers
Fragment(k) == <<IF k % 2 = 1 THEN "a" ELSE "b">>
DivergentPayload == <<"c">>
UserTexts == {<<"q">>}

NoError == "null"
SelectModelError == "Please select a model"
StreamingError == "Streaming error"
TransportError == "Failed to get response from the model"
AbnormalCloseError == "WebSocket closed abnormally"
StorageFullError == "Chat history storage is full"

\* assistant.content is a string or a ParsedAssistantContent
Str(text) == [kind |-> "string", text |-> text, parsed |-> NoResult]

Parsed(r) == [kind |-> "parsed", text |-> <<>>, parsed |-> r]

\* `Error: ${error || 'Failed to get response'}`; the message is one token
ErrorContent(e) ==
  Str(<<"E", "r", "r", "o", "r", ":", " ">>
        \o <<IF e = NoError THEN "Failed to get response" ELSE e>>)

\* the ChatHistory entry handleSendMessage appends; tid and model are history
\* variables: the send that made the entry and the model selected at that send
NewTurn(tid, model, text, image) ==
  [tid |-> tid, model |-> model,
   user |-> [text |-> text, image |-> image],
   assistant |-> [content |-> Str(<<>>), image |-> FALSE]]

\* messages: the message list of the payload createChatStream was given
UnusedSocket ==
  [status |-> "unused", received |-> <<>>, done |-> FALSE,
   final |-> [has |-> FALSE, content |-> <<>>], messages |-> <<>>]

NoRecord == [present |-> FALSE, turns |-> <<>>]

St ==
  [selectedModel |-> selectedModel, newChat |-> newChat, ragEnabled |-> ragEnabled,
   chatHistory |-> chatHistory, isLoading |-> isLoading, error |-> error,
   streamingRef |-> streamingRef, currentConversationId |-> currentConversationId,
   isLoadingExistingConversation |-> isLoadingExistingConversation,
   flagTimers |-> flagTimers, streamingBuffer |-> streamingBuffer,
   debounceTimeout |-> debounceTimeout, ws |-> ws, rag |-> rag,
   localStorage |-> localStorage, nextTid |-> nextTid, nextConv |-> nextConv,
   userOps |-> userOps, crashed |-> crashed, hung |-> hung,
   quotaFailures |-> quotaFailures, pageConversationId |-> pageConversationId,
   historyConversationId |-> historyConversationId, conversations |-> conversations,
   systemPrompt |-> systemPrompt, debounceAge |-> debounceAge,
   unflushedAge |-> unflushedAge, deleted |-> deleted,
   modelSelection |-> modelSelection, storedModelString |-> storedModelString]

Set(st) ==
  /\ selectedModel' = st.selectedModel
  /\ newChat' = st.newChat
  /\ ragEnabled' = st.ragEnabled
  /\ chatHistory' = st.chatHistory
  /\ isLoading' = st.isLoading
  /\ error' = st.error
  /\ streamingRef' = st.streamingRef
  /\ currentConversationId' = st.currentConversationId
  /\ isLoadingExistingConversation' = st.isLoadingExistingConversation
  /\ flagTimers' = st.flagTimers
  /\ streamingBuffer' = st.streamingBuffer
  /\ debounceTimeout' = st.debounceTimeout
  /\ ws' = st.ws
  /\ rag' = st.rag
  /\ localStorage' = st.localStorage
  /\ nextTid' = st.nextTid
  /\ nextConv' = st.nextConv
  /\ userOps' = st.userOps
  /\ crashed' = st.crashed
  /\ hung' = st.hung
  /\ quotaFailures' = st.quotaFailures
  /\ pageConversationId' = st.pageConversationId
  /\ historyConversationId' = st.historyConversationId
  /\ conversations' = st.conversations
  /\ systemPrompt' = st.systemPrompt
  /\ debounceAge' = st.debounceAge
  /\ unflushedAge' = st.unflushedAge
  /\ deleted' = st.deleted
  /\ modelSelection' = st.modelSelection
  /\ storedModelString' = st.storedModelString
  /\ UNCHANGED pvars

\* ---- model selections --------------------------------------------------
\* types/index.ts: ModelSelection; manualModelString may be undefined
ModelSelection(provider, model, manualModelString) ==
  [provider |-> provider, model |-> model, manualModelString |-> manualModelString]

\* useState<ModelSelection | null>(null)
NullSelection == ModelSelection(Undefined, Undefined, Undefined)

OllamaProvider == <<"o","l","l","a","m","a">>

\* contexts/MCPContext.tsx, and the same expression in ChatInterface.tsx:
\* model.manualModelString || (provider === 'ollama' ? `ollama/${model}` : model)
getModelString(model) ==
  IF model = NullSelection THEN <<>>
  ELSE IF model.manualModelString # Undefined /\ model.manualModelString # <<>>
  THEN model.manualModelString
  ELSE IF model.provider = OllamaProvider THEN OllamaProvider \o <<"/">> \o model.model
  ELSE model.model

\* modelString.split('/', 2): the first two parts
SplitInTwo(modelString) == SubSeq(Split(modelString, <<"/">>), 1, 2)

\* lib/conversationUtils.ts
parseModelString(modelString) ==
  IF Includes(modelString, <<"/">>)
  THEN ModelSelection(SplitInTwo(modelString)[1], SplitInTwo(modelString)[2], modelString)
  ELSE ModelSelection(OllamaProvider, modelString, Undefined)

\* what ModelSelector hands to onModelSelect: a model of the provider's list,
\* or the model string typed by hand
Providers == {OllamaProvider, <<"o","p","e","n","a","i">>, <<"g","r","o","q">>}

ListedModels == {<<"a">>, <<"b">>, <<"a",":","b">>, <<"a","/","b">>}

ManualModels == {<<"c">>, <<"g","r","o","q","/","c">>, <<"o","l","l","a","m","a","/","a">>,
                 <<"x","/","y","/","z">>}

ModelSelections ==
  {ModelSelection(provider, model, Undefined) : provider \in Providers, model \in ListedModels}
  \cup {ModelSelection(provider, <<>>, manual) : provider \in Providers, manual \in ManualModels}

\* the component when the page is first rendered; the settings are props
InitComponent(models, ragSettings, prompts) ==
  /\ selectedModel \in models
  /\ newChat = FALSE
  /\ ragEnabled \in ragSettings
  /\ systemPrompt \in prompts
  /\ chatHistory = <<>>
  /\ isLoading = FALSE
  /\ error = NoError
  /\ streamingRef = 0
  /\ currentConversationId = 0
  /\ isLoadingExistingConversation = FALSE
  /\ flagTimers = 0
  /\ streamingBuffer = <<>>
  /\ debounceTimeout = 0
  /\ ws = [s \in Tids |-> UnusedSocket]
  /\ rag = <<>>
  /\ localStorage = [rec |-> [m \in Models |-> [c \in ConvIds |-> NoRecord]],
                     cur |-> [m \in Models |-> 0]]
  /\ nextTid = 1
  /\ nextConv = 1
  /\ userOps = 0
  /\ crashed = FALSE
  /\ hung = FALSE
  /\ quotaFailures = 0
  /\ pageConversationId = 0
  /\ historyConversationId = 0
  /\ conversations = {}
  /\ debounceAge = 0
  /\ unflushedAge = 0
  /\ deleted = {}
  /\ modelSelection = NullSelection
  /\ storedModelString = Undefined

InitChat == InitComponent({NoModel, "m1"}, {FALSE}, {<<>>})

\* ---- localStorage: keys ------------------------------------------------
CHAT_HISTORY_STORAGE_PREFIX ==
  <<"o","l","l","a","m","a","-","w","e","b","u","i","-",
    "c","h","a","t","-","h","i","s","t","o","r","y">>

CurrentSuffix == <<"-","c","u","r","r","e","n","t">>

ConvPattern == <<"-","c","o","n","v","-">>

DigitChars == <<"0","1","2","3","4","5","6","7","8","9">>

\* the model string of a model selection: m1 and m2 are models of the
\* provider ollama picked from its list
ModelString(m) ==
  getModelString(ModelSelection(OllamaProvider, <<"m", IF m = "m1" THEN "1" ELSE "2">>,
                                Undefined))

\* `conv-${Date.now()}-...`: the counter nextConv stands for the clock
generateConversationId(c) == <<"c","o","n","v","-", DigitChars[c + 1]>>

getStorageKey(modelString) == CHAT_HISTORY_STORAGE_PREFIX \o <<"-">> \o modelString

RecordKey(m, c) == getStorageKey(ModelString(m)) \o <<"-">> \o generateConversationId(c)

CurrentKey(m) == getStorageKey(ModelString(m)) \o CurrentSuffix

\* the keys of the store with the entry each names; c = 0 is the pointer
StoredRecords(storage) ==
  {[key |-> RecordKey(mc[1], mc[2]), m |-> mc[1], c |-> mc[2]] :
     mc \in {x \in Models \X ConvIds : storage.rec[x[1]][x[2]].present}}

StoredPointers(storage) ==
  {[key |-> CurrentKey(m), m |-> m, c |-> 0] : m \in {x \in Models : storage.cur[x] # 0}}

\* the order of UTF-16 code units on the characters of a key
CodeOrder == <<"-", "/">> \o DigitChars \o UpperLetters \o LowerLetters

CharCode(ch) == CHOOSE k \in 1..Len(CodeOrder) : CodeOrder[k] = ch

RECURSIVE StringLess(_, _)
StringLess(a, b) ==
  IF Len(a) = 0 THEN Len(b) > 0
  ELSE IF Len(b) = 0 THEN FALSE
  ELSE IF a[1] = b[1] THEN StringLess(Tail(a), Tail(b))
  ELSE CharCode(a[1]) < CharCode(b[1])

RECURSIVE SortKeys(_)
SortKeysFrom(keys, first) == <<first>> \o SortKeys(keys \ {first})

\* keys.sort()
SortKeys(keys) ==
  IF keys = {} THEN <<>>
  ELSE SortKeysFrom(keys, CHOOSE k \in keys :
                            \A other \in keys \ {k} : StringLess(k.key, other.key))

keysToRemove(keys) == SubSeq(keys, 1, Min({Len(keys), Max({1, Len(keys) \div 3})}))

removeItem(storage, k) ==
  IF k.c = 0 THEN [storage EXCEPT !.cur[k.m] = 0]
  ELSE [storage EXCEPT !.rec[k.m][k.c] = NoRecord]

RECURSIVE removeItems(_, _)
removeItems(storage, keys) ==
  IF Len(keys) = 0 THEN storage
  ELSE removeItems(removeItem(storage, keys[1]), Tail(keys))

\* ---- localStorage: timestamps -----------------------------------------
\* Date.now() is kept by its order only: the stamps in the store are
\* 1..n, and a write takes the stamp after all of them.
StampsOf(turns) == {turns[k].timestamp : k \in 1..Len(turns)}

AllStamps(rec) == UNION {StampsOf(rec[mc[1]][mc[2]].turns) : mc \in Models \X ConvIds}

StampRank(stamps, t) == Cardinality({x \in stamps : x <= t})

Restamped(turns, stamps) ==
  [k \in 1..Len(turns) |-> [turns[k] EXCEPT !.timestamp = StampRank(stamps, @)]]

Compact(rec) ==
  [m \in Models |-> [c \in ConvIds |->
     [rec[m][c] EXCEPT !.turns = Restamped(@, AllStamps(rec))]]]

DateNow(rec) == Cardinality(AllStamps(rec)) + 1

\* ---- the save effect --------------------------------------------------
\* a copy that keeps the generated image of the assistant
storedHistoryWithImages(history, now) ==
  [k \in 1..Len(history) |->
     [tid |-> history[k].tid, model |-> history[k].model,
      user |-> history[k].user, assistant |-> history[k].assistant,
      timestamp |-> now]]

storedHistory(history, now) ==
  [k \in 1..Len(history) |->
     [tid |-> history[k].tid, model |-> history[k].model,
      user |-> history[k].user,
      assistant |-> [history[k].assistant EXCEPT !.image = FALSE],
      timestamp |-> IF "timestamp" \in DOMAIN history[k]
                    THEN history[k].timestamp ELSE now]]

\* the two setItem calls of the effect, when neither throws
setItems(storage, model, convId, history) ==
  [rec |-> Compact([storage.rec EXCEPT
                      ![model][convId] =
                          [present |-> TRUE,
                           turns |-> storedHistory(history, DateNow(storage.rec))]]),
   cur |-> [storage.cur EXCEPT ![model] = convId]]

\* the store after the removal loop of cleanupOldConversations
Evicted(storage) ==
  removeItems(storage,
              keysToRemove(SortKeys(StoredRecords(storage) \cup StoredPointers(storage))))

\* st: the state after the first setItem threw; quotaFailures counts the
\* writes still to throw
cleanupOldConversations(st, model, convId, history, evicted) ==
  IF st.quotaFailures > 0
  THEN [st EXCEPT !.localStorage = [evicted EXCEPT !.rec = Compact(@)],
                  !.quotaFailures = @ - 1,
                  !.error = StorageFullError]
  ELSE [st EXCEPT !.localStorage = setItems(evicted, model, convId, history)]

SaveEffectWith(st, model, convId, skip, history) ==
  IF model = NoModel \/ convId = 0 \/ skip \/ Len(history) = 0 THEN st
  ELSE IF st.quotaFailures = 0
  THEN [st EXCEPT !.localStorage = setItems(@, model, convId, history)]
  ELSE cleanupOldConversations([st EXCEPT !.quotaFailures = @ - 1], model, convId, history,
                               Evicted(st.localStorage))

\* the save effect of a render whose state is st
SaveEffect(st) ==
  SaveEffectWith(st, st.selectedModel, st.currentConversationId,
                 st.isLoadingExistingConversation, st.chatHistory)

\* ---- the transport: createChatStream's object and its WebSocket -------
\* close() of the object createChatStream returned
StreamClose(sockets, s) ==
  IF s # 0 /\ sockets[s].status = "open"
  THEN [sockets EXCEPT ![s].status = "closing"] ELSE sockets

\* a state updater that writes lastMessage.assistant; with an empty list
\* lastMessage is undefined and the write throws inside React's render
SetLast(st, value) ==
  IF Len(st.chatHistory) = 0 THEN [st EXCEPT !.crashed = TRUE]
  ELSE [st EXCEPT !.chatHistory[Len(st.chatHistory)].assistant.content = value]

\* ---- handleSendMessage ------------------------------------------------
\* a rejection that also marks a request as under way
RejectSendLoading(st) == [st EXCEPT !.error = SelectModelError, !.isLoading = TRUE]

\* `if (!selectedModel) { setError(...); return; }`
RejectSend(st) == [st EXCEPT !.error = SelectModelError]

\* a routing that sends image queries to RAG as well
useRAGWithImages(st, image) == st.ragEnabled

\* modelSettings.ragEnabled && !imageBase64
useRAG(st, image) == st.ragEnabled /\ ~image

\* the content of a user message: the text, or the parts text and image_url
Parts(text) == [kind |-> "parts", text |-> text, parsed |-> NoResult]

userMessageContent(user) == IF user.image THEN Parts(user.text) ELSE Str(user.text)

RawOf(value) ==
  IF value.kind = "string" THEN value.text ELSE value.parsed.rawContent

\* an assistant message that carries the content of the turn as it is
assistantContentAsIs(value) == value

\* typeof content === 'string' ? content : content.rawContent
assistantContent(value) == Str(RawOf(value))

\* `if (item.assistant.content)`: an object, or a string that is not ''
HasContent(value) == value.kind = "parsed" \/ value.text # <<>>

\* the messages chatHistory.flatMap makes of one turn
turn(item) ==
  <<[role |-> "user", content |-> userMessageContent(item.user)]>>
  \o IF HasContent(item.assistant.content)
     THEN <<[role |-> "assistant", content |-> assistantContent(item.assistant.content)]>>
     ELSE <<>>

RECURSIVE flatMapTurns(_)
flatMapTurns(history) ==
  IF Len(history) = 0 THEN <<>> ELSE turn(history[1]) \o flatMapTurns(Tail(history))

\* const messages = [...]
messages(prompt, history, text, image) ==
  (IF prompt # <<>> THEN <<[role |-> "system", content |-> Str(prompt)]>> ELSE <<>>)
  \o flatMapTurns(history)
  \o <<[role |-> "user", content |-> userMessageContent([text |-> text, image |-> image])]>>

handleSendMessage(st, text, image) ==
  IF st.selectedModel = NoModel THEN RejectSend(st)
  ELSE
    LET tid == st.nextTid
        st1 == IF st.currentConversationId = 0
               THEN [st EXCEPT !.currentConversationId = st.nextConv,
                               !.nextConv = st.nextConv + 1,
                               !.localStorage.cur[st.selectedModel] = st.nextConv]
               ELSE st
        st2 == [st1 EXCEPT
                  !.chatHistory = Append(st.chatHistory,
                                         NewTurn(tid, st.selectedModel, text, image)),
                  !.isLoading = TRUE,
                  !.error = NoError,
                  !.nextTid = tid + 1]
    IN IF useRAG(st, image)
       THEN SaveEffect([st2 EXCEPT !.rag = Append(@, [error |-> st.error])])
       ELSE SaveEffect([st2 EXCEPT
                          !.streamingBuffer = <<>>,
                          !.ws[tid] = [UnusedSocket EXCEPT
                                         !.status = "open",
                                         !.messages = messages(st.systemPrompt, st.chatHistory,
                                                               text, image)],
                          !.streamingRef = tid])

\* ---- onMessage --------------------------------------------------------
onMessageError(st) == [st EXCEPT !.error = StreamingError]

\* debounceAge is the time since setTimeout armed the pending timer and
\* unflushedAge the time since the oldest fragment no flush has shown arrived
onMessageChunk(st, s, chunk) ==
  [st EXCEPT !.streamingBuffer = @ \o chunk,
             !.debounceTimeout = s,
             !.debounceAge = 0,
             !.unflushedAge = IF st.debounceTimeout = 0 THEN 0 ELSE @,
             !.ws[s].received = @ \o chunk]

\* React commits what a handler queued when the render that runs its updaters
\* returns: a render that throws or does not return commits none of it
Commit(before, after) ==
  IF after.crashed \/ after.hung
  THEN [after EXCEPT !.chatHistory = before.chatHistory,
                     !.isLoading = before.isLoading,
                     !.error = before.error]
  ELSE after

\* the debounced callback
DebouncedFlush(st) ==
  Commit(st, SaveEffect(SetLast([st EXCEPT !.debounceTimeout = 0, !.debounceAge = 0,
                                           !.unflushedAge = 0],
                                Str(st.streamingBuffer))))

\* the done updater on a list whose last turn is at n: blank is
\* !finalContent.trim(), r the value of parseAssistantContent(finalContent)
FinalizeParsed(st, n, imageData, blank, r) ==
  IF ~blank /\ r = Hang THEN [st EXCEPT !.hung = TRUE]
  ELSE SaveEffect([st EXCEPT
                     !.chatHistory[n].assistant.content = IF ~blank THEN Parsed(r) ELSE @,
                     !.chatHistory[n].assistant.image = IF imageData THEN TRUE ELSE @])

FinalizeLast(st, n, imageData, finalContent) ==
  FinalizeParsed(st, n, imageData, Trim(finalContent) = <<>>,
                 parseAssistantContent(finalContent))

\* st: the state once the timer is cleared and isLoading is reset
DoneUpdater(st, hasMessage, messageContent, messageImage) ==
  IF Len(st.chatHistory) = 0
  THEN IF ~hasMessage \/ Trim(messageContent) # <<>> \/ messageImage
       THEN [st EXCEPT !.crashed = TRUE]
       ELSE SaveEffect(st)
  ELSE FinalizeLast(st, Len(st.chatHistory), hasMessage /\ messageImage,
                    IF hasMessage THEN messageContent
                    ELSE RawOf(st.chatHistory[Len(st.chatHistory)].assistant.content))

onMessageDone(st, s, hasMessage, messageContent, messageImage) ==
  Commit(st,
  DoneUpdater([st EXCEPT !.debounceTimeout = 0,
                         !.debounceAge = 0,
                         !.unflushedAge = 0,
                         !.isLoading = FALSE,
                         !.ws[s].done = TRUE,
                         !.ws[s].final = [has |-> hasMessage,
                                          content |-> IF hasMessage THEN messageContent
                                                      ELSE <<>>]],
              hasMessage, messageContent, messageImage))

\* ---- onError and onClose ----------------------------------------------
onError(st, message) == [st EXCEPT !.error = message]

onClose(st) == [st EXCEPT !.isLoading = FALSE, !.streamingRef = 0]

\* ws.onclose of createChatStream: an abnormal code reports an error first
wsOnClose(st, s, normal) ==
  LET st1 == [st EXCEPT !.ws[s].status = "closed"]
  IN onClose(IF normal THEN st1 ELSE onError(st1, AbnormalCloseError))

\* ---- the RAG path of handleSendMessage, after the await ---------------
RagResponses == {<<"a">>, <<"|">>}

\* st: the state once the await has returned; r: the classified response
SetParsed(st, r) ==
  IF Len(st.chatHistory) = 0 THEN [st EXCEPT !.crashed = TRUE]
  ELSE IF r = Hang THEN [st EXCEPT !.hung = TRUE]
  ELSE SaveEffect(SetLast(st, Parsed(r)))

\* the calls of sendRAGQuery still awaited, without the k-th
Settled(calls, k) == SubSeq(calls, 1, k - 1) \o SubSeq(calls, k + 1, Len(calls))

\* k: the call of sendRAGQuery that returned
ragResolved(st, k, response) ==
  Commit(st, SetParsed([st EXCEPT !.rag = Settled(@, k), !.isLoading = FALSE],
                       parseAssistantContent(response)))

\* the catch block; error is the value the handler's render had
ragRejected(st, k) ==
  Commit(st, SaveEffect(SetLast([st EXCEPT !.rag = Settled(@, k), !.isLoading = FALSE,
                                           !.error = TransportError],
                                ErrorContent(st.rag[k].error))))

\* ---- conversations ----------------------------------------------------
startNewConversation(st) ==
  LET newId == st.nextConv
      st1 == [st EXCEPT !.ws = StreamClose(st.ws, st.streamingRef),
                        !.streamingRef = 0,
                        !.currentConversationId = newId,
                        !.nextConv = newId + 1,
                        !.chatHistory = <<>>,
                        !.error = NoError,
                        !.pageConversationId = newId]
  IN IF st.selectedModel # NoModel
     THEN [st1 EXCEPT !.localStorage.cur[st.selectedModel] = newId] ELSE st1

\* lib/conversationUtils.ts
\* parsedHistory.map(({ timestamp: _, ...item }) => item)
WithoutTimestamp(turns) ==
  [k \in 1..Len(turns) |->
     [tid |-> turns[k].tid, model |-> turns[k].model,
      user |-> turns[k].user, assistant |-> turns[k].assistant]]

loadConversationData(storage, modelString, conversationId) ==
  IF /\ storage.rec[modelString][conversationId].present
     /\ Len(storage.rec[modelString][conversationId].turns) > 0
  THEN WithoutTimestamp(storage.rec[modelString][conversationId].turns) ELSE <<>>

\* the branch of the load effect taken when newChat is false
LoadCurrentOfModel(st) ==
  LET currentConvId == st.localStorage.cur[st.selectedModel]
  IN IF currentConvId # 0
     THEN [st EXCEPT !.currentConversationId = currentConvId,
                     !.chatHistory = loadConversationData(st.localStorage, st.selectedModel,
                                                          currentConvId)]
     ELSE [st EXCEPT !.chatHistory = <<>>, !.currentConversationId = 0]

\* the effect on [selectedModel, newChat]
loadEffect(st) ==
  IF st.selectedModel = NoModel THEN st
  ELSE IF st.newChat THEN [startNewConversation(st) EXCEPT !.newChat = FALSE]
  ELSE LoadCurrentOfModel(st)

\* The renders that follow a change of selectedModel or newChat; st is the
\* state of the first of them.  Effects run in declaration order, the load
\* effect first, and every effect of a render sees the state of that render:
\* what the load effect sets is visible only from the next render on.
EffectsOfModelOrNewChat(st, modelChanged) ==
  IF st.selectedModel = NoModel THEN st
  ELSE
    LET r1 == loadEffect(st)
        s1 == IF modelChanged
              THEN SaveEffectWith(r1, st.selectedModel, st.currentConversationId,
                                  st.isLoadingExistingConversation, st.chatHistory)
              ELSE r1
    IN IF st.newChat
       THEN LET r2 == loadEffect(s1)
            IN SaveEffect(SaveEffectWith(r2, s1.selectedModel, s1.currentConversationId,
                                         s1.isLoadingExistingConversation, s1.chatHistory))
       ELSE SaveEffect(s1)

\* lib/conversationUtils.ts: the entry getAllConversations makes of a key
\* that holds chatData; the model and the conversation are read from the key
ConversationMeta(key, convPatternIndex, chatData) ==
  [modelString |-> SubSeq(key, 1, convPatternIndex - 1),
   conversationId |-> SubSeq(key, convPatternIndex + 1, Len(key)),
   timestamp |-> Max(StampsOf(chatData)),
   messageCount |-> Len(chatData)]

MetaOfKey(remainingKey, chatData) ==
  ConversationMeta(remainingKey, IndexOf(remainingKey, ConvPattern, 1), chatData)

RemainingKey(key) == SubSeq(key, Len(CHAT_HISTORY_STORAGE_PREFIX) + 2, Len(key))

\* the entries pushed by the loop over the keys of the store
CollectedConversations(storage) ==
  {MetaOfKey(RemainingKey(k.key), storage.rec[k.m][k.c].turns) :
     k \in {x \in StoredRecords(storage) \cup StoredPointers(storage) :
              /\ StartsWith(x.key, CHAT_HISTORY_STORAGE_PREFIX)
              /\ ~EndsWith(x.key, CurrentSuffix)
              /\ Len(storage.rec[x.m][x.c].turns) > 0
              /\ IndexOf(RemainingKey(x.key), ConvPattern, 1) # 0}}

RECURSIVE SortOldestFirst(_)
SortOldestFrom(metas, first) == <<first>> \o SortOldestFirst(metas \ {first})

\* a comparator with its operands exchanged
SortOldestFirst(metas) ==
  IF metas = {} THEN <<>>
  ELSE SortOldestFrom(metas, CHOOSE x \in metas :
                               \A other \in metas : x.timestamp <= other.timestamp)

RECURSIVE SortNewestFirst(_)
SortNewestFrom(metas, first) == <<first>> \o SortNewestFirst(metas \ {first})

\* conversations.sort((a, b) => b.timestamp - a.timestamp)
SortNewestFirst(metas) ==
  IF metas = {} THEN <<>>
  ELSE SortNewestFrom(metas, CHOOSE x \in metas :
                               \A other \in metas : other.timestamp <= x.timestamp)

getAllConversations(storage) == SortNewestFirst(CollectedConversations(storage))

\* components/SimpleHistory.tsx: loadConversations; an entry of the list is
\* kept by the model and the conversation it names
loadConversations(st) ==
  [st EXCEPT !.conversations =
      {mc \in Models \X ConvIds :
         \E k \in 1..Len(getAllConversations(st.localStorage)) :
            /\ getAllConversations(st.localStorage)[k].modelString = ModelString(mc[1])
            /\ getAllConversations(st.localStorage)[k].conversationId
                 = generateConversationId(mc[2])}]

\* components/SimpleHistory.tsx: the effect on [selectedModel]; the panel is
\* rendered before the chat, so its effect reads the store first
historyModelEffect(st) ==
  [loadConversations(st) EXCEPT
     !.historyConversationId = IF st.selectedModel = NoModel THEN 0
                               ELSE st.localStorage.cur[st.selectedModel]]

\* components/SimpleHistory.tsx: the effect on [newConversationId,
\* currentConversationId]
newConversationIdEffect(st) ==
  IF st.pageConversationId # 0 /\ st.pageConversationId # st.historyConversationId
  THEN loadConversations([st EXCEPT !.historyConversationId = st.pageConversationId])
  ELSE st

\* the model dropdown
selectModel(st, m) ==
  newConversationIdEffect(
    EffectsOfModelOrNewChat(historyModelEffect([st EXCEPT !.selectedModel = m]), TRUE))

\* app/page.tsx
handleNewChat(st) ==
  newConversationIdEffect(EffectsOfModelOrNewChat([st EXCEPT !.newChat = TRUE], FALSE))

clearChat(st) ==
  newConversationIdEffect(
    SaveEffect(startNewConversation(
                 [st EXCEPT !.ws = StreamClose(st.ws, st.streamingRef), !.streamingRef = 0])))

\* useImperativeHandle: loadConversation
loadConversation(st, history, conversationId) ==
  [st EXCEPT !.isLoadingExistingConversation = TRUE,
             !.currentConversationId = conversationId,
             !.chatHistory = history,
             !.error = NoError,
             !.flagTimers = @ + 1]

\* app/page.tsx
handleLoadConversation(st, modelString, conversationId) ==
  LET conversationData == loadConversationData(st.localStorage, modelString, conversationId)
  IN [IF Len(conversationData) > 0
      THEN loadConversation(st, conversationData, conversationId) ELSE st
        EXCEPT !.pageConversationId = conversationId]

\* components/SimpleHistory.tsx
handleSelectConversation(st, modelString, conversationId) ==
  LET changed == st.selectedModel # modelString
      st1 == [st EXCEPT !.selectedModel = modelString,
                        !.localStorage.cur[modelString] = conversationId,
                        !.historyConversationId = conversationId]
      st2 == handleLoadConversation(st1, modelString, conversationId)
  IN newConversationIdEffect(
       IF changed THEN EffectsOfModelOrNewChat(historyModelEffect(st2), TRUE)
       ELSE IF Len(loadConversationData(st.localStorage, modelString, conversationId)) > 0
       THEN SaveEffect(st2)
       ELSE st2)

\* components/SimpleHistory.tsx; deleted is a history variable: the
\* conversations the user has deleted from the list
handleDeleteConversation(st, modelString, conversationId) ==
  newConversationIdEffect(loadConversations(
    IF st.selectedModel = modelString /\ st.historyConversationId = conversationId
    THEN [st EXCEPT !.localStorage.rec =
                       Compact([@ EXCEPT ![modelString][conversationId] = NoRecord]),
                    !.localStorage.cur[modelString] = 0,
                    !.historyConversationId = 0,
                    !.deleted = @ \cup {<<modelString, conversationId>>}]
    ELSE [st EXCEPT !.localStorage.rec =
                       Compact([@ EXCEPT ![modelString][conversationId] = NoRecord]),
                    !.deleted = @ \cup {<<modelString, conversationId>>}]))

\* the setTimeout(..., 100) of loadConversation
flagTimeout(st) ==
  LET st1 == [st EXCEPT !.isLoadingExistingConversation = FALSE, !.flagTimers = @ - 1]
  IN IF st.isLoadingExistingConversation THEN SaveEffect(st1) ELSE st1

\* ---- actions ----------------------------------------------------------
Alive == ~crashed /\ ~hung

CanAllocate == nextConv <= MaxConvs

\* the final payloads a done message may carry for a stream that delivered text
FinalMessages(text) ==
  {[content |-> text, image |-> FALSE], [content |-> DivergentPayload, image |-> TRUE]}

\* an image is attached only where it decides the route of the send
UserImages == IF ragEnabled THEN BOOLEAN ELSE {FALSE}

UserOp(st) == [st EXCEPT !.userOps = @ + 1]

CanOperate == Alive /\ userOps < MaxUserOps

\* ChatInput's handleSubmit returns while isLoading
SendWithin(sends) ==
  /\ Alive
  /\ ~isLoading
  /\ nextTid <= sends
  /\ (selectedModel # NoModel /\ currentConversationId = 0) => CanAllocate
  /\ \E text \in UserTexts, image \in UserImages : Set(handleSendMessage(St, text, image))

Send == SendWithin(MaxSends)

ChunkWithin(frags) ==
  /\ Alive
  /\ \E s \in Tids :
       /\ ws[s].status = "open" /\ ~ws[s].done /\ Len(ws[s].received) < frags
       /\ Set(onMessageChunk(St, s, Fragment(Len(ws[s].received) + 1)))

Chunk == ChunkWithin(MaxFrags)

Done ==
  /\ Alive
  /\ \E s \in Tids :
       /\ ws[s].status = "open" /\ ~ws[s].done
       /\ \/ Set(onMessageDone(St, s, FALSE, <<>>, FALSE))
          \/ \E message \in FinalMessages(ws[s].received) :
                Set(onMessageDone(St, s, TRUE, message.content, message.image))

ErrorMessage ==
  /\ Alive
  /\ \E s \in Tids :
       /\ ws[s].status = "open" /\ ~ws[s].done
       /\ Set(onMessageError(St))

\* ws.onerror; the connection has failed and the close event follows
SocketError ==
  /\ Alive
  /\ \E s \in Tids :
       /\ ws[s].status = "open"
       /\ Set(onError([St EXCEPT !.ws[s].status = "closing"], TransportError))

SocketClose ==
  /\ Alive
  /\ \E s \in Tids :
       /\ ws[s].status \in {"open", "closing"}
       /\ \E normal \in BOOLEAN : Set(wsOnClose(St, s, normal))

Flush ==
  /\ Alive
  /\ debounceTimeout # 0
  /\ Set(DebouncedFlush(St))

\* the pending timer fires when its delay has passed
Timeout ==
  /\ Alive
  /\ debounceTimeout # 0
  /\ debounceAge = DebounceDelay
  /\ Set(DebouncedFlush(St))

\* one tick of the clock; a timer that is due fires before the next tick
Tick ==
  /\ Alive
  /\ debounceTimeout # 0
  /\ debounceAge < DebounceDelay
  /\ unflushedAge < MaxWait
  /\ Set([St EXCEPT !.debounceAge = @ + 1, !.unflushedAge = @ + 1])

StreamSend == SendWithin(MaxStreamSends)

StreamChunk == ChunkWithin(MaxStreamFrags)

RagResolve ==
  /\ Alive
  /\ \E k \in 1..Len(rag), response \in RagResponses : Set(ragResolved(St, k, response))

RagReject ==
  /\ Alive
  /\ \E k \in 1..Len(rag) : Set(ragRejected(St, k))

ToggleRAG ==
  /\ CanOperate
  /\ ~isLoading
  /\ Set(UserOp([St EXCEPT !.ragEnabled = ~ragEnabled]))

SelectModel ==
  /\ CanOperate
  /\ newChat => CanAllocate
  /\ \E m \in Models : m # selectedModel /\ Set(UserOp(selectModel(St, m)))

NewChat ==
  /\ CanOperate
  /\ ~newChat
  /\ selectedModel # NoModel => CanAllocate
  /\ Set(UserOp(handleNewChat(St)))

ClearChat ==
  /\ CanOperate
  /\ CanAllocate
  /\ Set(UserOp(clearChat(St)))

SelectConversation ==
  /\ CanOperate
  /\ flagTimers < MaxFlagTimers
  /\ newChat => CanAllocate
  /\ \E mc \in conversations : Set(UserOp(handleSelectConversation(St, mc[1], mc[2])))

FlagTimeout ==
  /\ Alive
  /\ flagTimers > 0
  /\ Set(flagTimeout(St))

\* the delete button of an entry of the history panel
DeleteConversation ==
  /\ CanOperate
  /\ \E mc \in conversations : Set(UserOp(handleDeleteConversation(St, mc[1], mc[2])))

\* ModelSelector's effect: onModelSelect, which is setSelectedModel
ChooseModel ==
  \E selection \in ModelSelections \ {modelSelection} :
     Set([St EXCEPT !.modelSelection = selection])

\* the model string of the list entry that getAllConversations makes of the
\* key under which the save effect stores a conversation of the selection
StoredUnder(selection) ==
  MetaOfKey(RemainingKey(getStorageKey(getModelString(selection)) \o <<"-">>
                         \o generateConversationId(1)),
            <<[timestamp |-> 1]>>).modelString

StoreConversation ==
  /\ modelSelection # NullSelection
  /\ Set([St EXCEPT !.storedModelString = StoredUnder(modelSelection)])

\* handleSelectConversation on the stored conversation: the model is set
\* when the model string of the selection is not that of the conversation
SelectStoredConversation ==
  /\ storedModelString # Undefined
  /\ getModelString(modelSelection) # storedModelString
  /\ Set([St EXCEPT !.modelSelection = parseModelString(storedModelString)])

\* the origin's storage fills up: the next n writes of a conversation throw
\* QuotaExceededError
QuotaExceeded ==
  /\ CanOperate
  /\ quotaFailures = 0
  /\ \E n \in 1..MaxQuotaFailures : Set(UserOp([St EXCEPT !.quotaFailures = n]))

(***************************************************************************)
(* Specifications.  SpecParse runs the classifier on every bounded input;  *)
(* Spec runs the component.                                                *)
(***************************************************************************)
vars == <<pvars, cvars>>

InitParse ==
  /\ InitChat
  /\ content \in ParseInputs
  /\ i = 0
  /\ blocks = <<>>
  /\ stall = 0
  /\ ppc = "loop"
  /\ result = NoResult

\* the body of `while (i < lines.length)`; stall counts the iterations that
\* leave the index where it was
ParseIter ==
  /\ ppc = "loop"
  /\ i < Len(Split(content, <<NL>>))
  /\ stall < MaxStall
  /\ LET r == OuterIteration(Split(content, <<NL>>), i, blocks)
     IN /\ i' = r.i
        /\ blocks' = r.blocks
        /\ stall' = IF r.i = i THEN stall + 1 ELSE stall
  /\ UNCHANGED <<content, ppc, result>>
  /\ UNCHANGED cvars

ParseReturn ==
  /\ ppc = "loop"
  /\ i >= Len(Split(content, <<NL>>))
  /\ result' = FinishParse(content, blocks)
  /\ ppc' = "done"
  /\ UNCHANGED <<content, i, blocks, stall>>
  /\ UNCHANGED cvars

NextParse == ParseIter \/ ParseReturn

SpecParse == InitParse /\ [][NextParse]_vars

\* the component at rest makes no call of the classifier that is observed
\* through the parse variables
Init ==
  /\ InitChat
  /\ content = <<>>
  /\ i = 0
  /\ blocks = <<>>
  /\ stall = 0
  /\ ppc = "idle"
  /\ result = NoResult

Next ==
  \/ Send \/ Chunk \/ Done \/ ErrorMessage \/ SocketError \/ SocketClose \/ Flush
  \/ RagResolve \/ RagReject \/ ToggleRAG
  \/ SelectModel \/ NewChat \/ ClearChat \/ SelectConversation \/ FlagTimeout
  \/ DeleteConversation \/ QuotaExceeded

Spec == Init /\ [][Next]_vars

\* The component driven by sends, the transport and the RAG call alone: no
\* operation of the page or of the history panel, and more sends.
InitStream ==
  /\ InitComponent({"m1"}, BOOLEAN, {<<>>, <<"s">>})
  /\ content = <<>>
  /\ i = 0
  /\ blocks = <<>>
  /\ stall = 0
  /\ ppc = "idle"
  /\ result = NoResult

NextStream ==
  \/ StreamSend \/ Chunk \/ Done \/ ErrorMessage \/ SocketError \/ SocketClose \/ Flush
  \/ RagResolve \/ RagReject

SpecStream == InitStream /\ [][NextStream]_vars

\* The component with a finished conversation on display that the history
\* panel lists: the state the handlers below lead to from the first render.
FirstRender ==
  [selectedModel |-> "m1", newChat |-> FALSE, ragEnabled |-> FALSE,
   chatHistory |-> <<>>, isLoading |-> FALSE, error |-> NoError,
   streamingRef |-> 0, currentConversationId |-> 0,
   isLoadingExistingConversation |-> FALSE,
   flagTimers |-> 0, streamingBuffer |-> <<>>,
   debounceTimeout |-> 0, ws |-> [s \in Tids |-> UnusedSocket], rag |-> <<>>,
   localStorage |-> [rec |-> [m \in Models |-> [c \in ConvIds |-> NoRecord]],
                     cur |-> [m \in Models |-> 0]],
   nextTid |-> 1, nextConv |-> 1,
   userOps |-> 0, crashed |-> FALSE, hung |-> FALSE,
   quotaFailures |-> 0, pageConversationId |-> 0,
   historyConversationId |-> 0, conversations |-> {},
   systemPrompt |-> <<>>, debounceAge |-> 0,
   unflushedAge |-> 0, deleted |-> {},
   modelSelection |-> NullSelection, storedModelString |-> Undefined]

\* send 'q', the answer 'a' streams and ends, the socket closes
AfterFirstAnswer ==
  wsOnClose(onMessageDone(DebouncedFlush(onMessageChunk(
              handleSendMessage(FirstRender, <<"q">>, FALSE), 1, Fragment(1))),
            1, FALSE, <<>>, FALSE), 1, TRUE)

\* the user looks at the other model and comes back
ListedConversation == selectModel(selectModel(AfterFirstAnswer, "m2"), "m1")

Start(st) ==
  /\ selectedModel = st.selectedModel
  /\ newChat = st.newChat
  /\ ragEnabled = st.ragEnabled
  /\ chatHistory = st.chatHistory
  /\ isLoading = st.isLoading
  /\ error = st.error
  /\ streamingRef = st.streamingRef
  /\ currentConversationId = st.currentConversationId
  /\ isLoadingExistingConversation = st.isLoadingExistingConversation
  /\ flagTimers = st.flagTimers
  /\ streamingBuffer = st.streamingBuffer
  /\ debounceTimeout = st.debounceTimeout
  /\ ws = st.ws
  /\ rag = st.rag
  /\ localStorage = st.localStorage
  /\ nextTid = st.nextTid
  /\ nextConv = st.nextConv
  /\ userOps = st.userOps
  /\ crashed = st.crashed
  /\ hung = st.hung
  /\ quotaFailures = st.quotaFailures
  /\ pageConversationId = st.pageConversationId
  /\ historyConversationId = st.historyConversationId
  /\ conversations = st.conversations
  /\ systemPrompt = st.systemPrompt
  /\ debounceAge = st.debounceAge
  /\ unflushedAge = st.unflushedAge
  /\ deleted = st.deleted
  /\ modelSelection = st.modelSelection
  /\ storedModelString = st.storedModelString

InitListed ==
  /\ Start(ListedConversation)
  /\ content = <<>>
  /\ i = 0
  /\ blocks = <<>>
  /\ stall = 0
  /\ ppc = "idle"
  /\ result = NoResult

SpecListed == InitListed /\ [][Next]_vars

\* The model selection alone: models are chosen, a conversation is stored
\* under the selected model, and the stored conversation is selected from
\* the history list.
InitModel ==
  /\ InitComponent({NoModel}, {FALSE}, {<<>>})
  /\ content = <<>>
  /\ i = 0
  /\ blocks = <<>>
  /\ stall = 0
  /\ ppc = "idle"
  /\ result = NoResult

NextModel == ChooseModel \/ StoreConversation \/ SelectStoredConversation

SpecModel == InitModel /\ [][NextModel]_vars

\* The streams of the component with the clock kept: the debounce timer
\* fires when its delay has passed, and a stream delivers more fragments.
InitTimed ==
  /\ InitComponent({"m1"}, {FALSE}, {<<>>})
  /\ content = <<>>
  /\ i = 0
  /\ blocks = <<>>
  /\ stall = 0
  /\ ppc = "idle"
  /\ result = NoResult

NextTimed ==
  \/ Send \/ StreamChunk \/ Done \/ ErrorMessage \/ SocketError \/ SocketClose
  \/ Timeout \/ Tick

SpecTimed == InitTimed /\ [][NextTimed]_vars

(***************************************************************************)
(* Properties.                                                             *)
(***************************************************************************)
CurLines == Split(content, <<NL>>)

AtLoop == ppc = "loop" /\ i < Len(CurLines)

CurLine == Trim(At(CurLines, i))

LastBlock(blks) == blks[Len(blks)]

\* C1: parseAssistantContent is total: every iteration of the outer loop
\* advances the line index, and the call returns a result whose rawContent is
\* the input and that has at least one block.
C1_ParseIsTotal ==
  /\ stall = 0
  /\ ppc = "done" => (result.rawContent = content /\ Len(result.blocks) >= 1)

\* the current line opens a JSON region that does not parse, or an XML
\* region whose tag stack is never empty again
JSONRegionFails ==
  /\ StartsWith(CurLine, <<"{">>) \/ StartsWith(CurLine, <<"[">>)
  /\ ~isLikelyJSON(CurLine, CurLines, i) \/ extractJSON(CurLines, i) = Null

XMLRegionUnclosed ==
  /\ StartsWith(CurLine, <<"<">>)
  /\ extractXML(CurLines, i) = Null

AcceptedByLaterRule ==
  \/ IsCommandLine(CurLine)
  \/ IsMathLine(CurLine)
  \/ IsRowLine(CurLine) /\ TableRun(CurLines, i) >= 2

\* C9: a line that opens a malformed JSON region or an unclosed XML region
\* (and that no later rule accepts) is consumed into a text block that holds
\* the line; no json or xml block is emitted for it and the scan goes on.
C9_MalformedRegionBecomesText ==
  [][(AtLoop /\ (JSONRegionFails \/ XMLRegionUnclosed) /\ ~AcceptedByLaterRule)
       => /\ i' > i
          /\ Len(blocks') = Len(blocks) + 1
          /\ LastBlock(blocks').type = "text"
          /\ Includes(LastBlock(blocks').content, CurLine)]_vars

\* the table rule is the first rule to accept or reject the current line
ReachesTableRule ==
  /\ ~StartsWith(CurLine, Fence)
  /\ ~((StartsWith(CurLine, <<"{">>) \/ StartsWith(CurLine, <<"[">>))
        /\ isLikelyJSON(CurLine, CurLines, i) /\ extractJSON(CurLines, i) # Null)
  /\ ~(StartsWith(CurLine, <<"<">>) /\ ~StartsWith(CurLine, <<"<", "!", "-", "-">>)
        /\ isLikelyXML(CurLine) /\ extractXML(CurLines, i) # Null)
  /\ ~IsCommandLine(CurLine)
  /\ ~IsMathLine(CurLine)

\* C10: a candidate table row not followed by another row is emitted as a
\* text block; a run of two or more rows is emitted as exactly one table
\* block holding the whole run, and the scan resumes right after the run.
C10_TableNeedsTwoRows ==
  [][(AtLoop /\ ReachesTableRule /\ IsRowLine(CurLine))
       => LET n == TableRun(CurLines, i)
          IN IF n >= 2
             THEN /\ i' = i + n
                  /\ blocks' = Append(blocks,
                                      Block("table", Join(Slice(CurLines, i, i + n), <<NL>>),
                                            Undefined, TitleTable))
             ELSE /\ i' > i
                  /\ Len(blocks') = Len(blocks) + 1
                  /\ LastBlock(blocks').type = "text"]_vars

\* a stream that is still accumulating: its channel is open and no done
\* message has been processed
InFlight(s) == ws[s].status = "open" /\ ~ws[s].done

HasTurn(history, tid) == \E k \in 1..Len(history) : history[k].tid = tid

TurnOf(history, tid) == history[CHOOSE k \in 1..Len(history) : history[k].tid = tid]

IsLastTurn(history, tid) == Len(history) > 0 /\ history[Len(history)].tid = tid

\* C2: when done is processed for the in-flight turn, the turn's content
\* becomes classify(T), T being the final payload if the message carries one
\* and else every fragment received on the stream, in arrival order.  (Stated
\* for the T on which classify returns and that are not blank.)
C2_DoneClassifiesWholeStream ==
  [][\A s \in Tids :
       (InFlight(s) /\ ws'[s].done /\ IsLastTurn(chatHistory, s))
       => LET T == IF ws'[s].final.has THEN ws'[s].final.content ELSE ws'[s].received
          IN (Trim(T) # <<>> /\ parseAssistantContent(T) # Hang)
             => /\ IsLastTurn(chatHistory', s)
                /\ TurnOf(chatHistory', s).assistant.content = Parsed(parseAssistantContent(T))]_vars

\* C3: whatever replaces the conversation on display while a stream is in
\* flight closes that stream's channel.
C3_ReplacingConversationClosesStream ==
  [][\A s \in Tids :
       (InFlight(s) /\ HasTurn(chatHistory, s) /\ ~HasTurn(chatHistory', s))
       => ws'[s].status # "open"]_vars

\* C4: the step that finalizes a stream (done) or cancels it (its channel
\* stops being open, or its turn is taken off the list on display) clears the
\* stream's pending debounce timer, so that no flush scheduled for the stream
\* runs afterwards.
C4_EndOfStreamClearsTimer ==
  [][\A s \in Tids :
       (debounceTimeout = s
          /\ \/ ~ws[s].done /\ ws'[s].done
             \/ ws[s].status = "open" /\ ws'[s].status # "open"
             \/ HasTurn(chatHistory, s) /\ ~HasTurn(chatHistory', s))
       => debounceTimeout' = 0]_vars

\* C5: a record stored under model m holds only turns sent while m was
\* selected, and the current pointer of m names no conversation of another model.
C5_RecordsStayWithinTheirModel ==
  \A m \in Models :
     /\ \A c \in ConvIds :
          localStorage.rec[m][c].present
          => \A k \in 1..Len(localStorage.rec[m][c].turns) :
                localStorage.rec[m][c].turns[k].model = m
     /\ localStorage.cur[m] # 0
          => \A other \in Models \ {m} : ~localStorage.rec[other][localStorage.cur[m]].present

IsErrorText(value) ==
  value.kind = "string" /\ StartsWith(value.text, <<"E", "r", "r", "o", "r">>)

\* C6: when the transport reports an error for the turn that is accumulating,
\* the turn's content becomes an error string (it is not classified) and the
\* component is idle: not loading, no flush pending.
C6_TransportErrorEndsTurn ==
  [][\A s \in Tids :
       (InFlight(s) /\ IsLastTurn(chatHistory, s)
          /\ error' # error
          /\ error' \in {StreamingError, TransportError, AbnormalCloseError})
       => /\ IsLastTurn(chatHistory', s)
          /\ IsErrorText(TurnOf(chatHistory', s).assistant.content)
          /\ ~isLoading'
          /\ debounceTimeout' = 0]_vars

\* C7: when the channel of an accumulating turn closes before done, the
\* turn's content is what it was before the stream started: empty.
C7_CloseLeavesTurnEmpty ==
  [][\A s \in Tids :
       (~ws[s].done /\ ws[s].status # "closed" /\ ws'[s].status = "closed"
          /\ HasTurn(chatHistory', s))
       => TurnOf(chatHistory', s).assistant.content = Str(<<>>)]_vars

\* C8: the content of a finalized turn never changes while the turn is in
\* the list.
C8_FinalizedTurnIsFrozen ==
  [][\A k \in 1..Len(chatHistory) :
       (chatHistory[k].assistant.content.kind = "parsed"
          /\ HasTurn(chatHistory', chatHistory[k].tid))
       => TurnOf(chatHistory', chatHistory[k].tid).assistant.content
             = chatHistory[k].assistant.content]_vars

\* index of the first line at or after idx after which the brace and bracket
\* depths, counted outside string literals from the scanner state st, are
\* both zero; -1 if there is none
RECURSIVE FirstBalanced(_, _, _)
FirstBalancedAfter(lines, idx, st) ==
  IF st.brace = 0 /\ st.bracket = 0 THEN idx ELSE FirstBalanced(lines, idx + 1, st)

FirstBalanced(lines, idx, st) ==
  IF idx >= Len(lines) THEN -1
  ELSE FirstBalancedAfter(lines, idx, JSONLine(st, At(lines, idx), 1))

RegionEnd ==
  FirstBalanced(CurLines, i, [brace |-> 0, bracket |-> 0, inString |-> FALSE, escaped |-> FALSE])

\* the current line opens a region that closes at line RegionEnd and parses
OpensJSONRegion ==
  /\ AtLoop
  /\ StartsWith(CurLine, <<"{">>) \/ StartsWith(CurLine, <<"[">>)
  /\ RegionEnd >= i
  /\ JSONParses(Join(Slice(CurLines, i, RegionEnd + 1), <<NL>>))

\* C11: a line that opens a JSON region closing at line k, whose lines parse
\* as JSON, yields one json block holding exactly the lines of the region, and
\* the scan resumes at line k + 1, whatever follows the region.
C11_JSONRegionIsOneBlock ==
  [][OpensJSONRegion
       => /\ i' = RegionEnd + 1
          /\ blocks' = Append(blocks,
                              Block("json", Join(Slice(CurLines, i, RegionEnd + 1), <<NL>>),
                                    Undefined, TitleJSON))]_vars

\* the line at index k is accounted for by the iteration that consumed it: it
\* is blank, or a delimiter of the fence that iteration read, or the block
\* that iteration appended contains it (a command without its prefix)
IsFenceDelimiter(k) ==
  /\ StartsWith(CurLine, Fence)
  /\ StartsWith(Trim(At(CurLines, k)), Fence)
  /\ k = i \/ k = i' - 1

InBlock(blk, trimmed) ==
  \/ Includes(blk.content, trimmed)
  \/ blk.type = "command" /\ blk.content = SubSeq(trimmed, 3, Len(trimmed))

LineAccounted(k) ==
  \/ Trim(At(CurLines, k)) = <<>>
  \/ IsFenceDelimiter(k)
  \/ /\ Len(blocks') = Len(blocks) + 1
     /\ InBlock(LastBlock(blocks'), Trim(At(CurLines, k)))

\* C12: on every iteration that advances, the blocks found so far are kept
\* in order and at most one block is appended, and every line the iteration
\* consumed is blank, a fence delimiter, or contained in that one new block;
\* the call returns the blocks it collected.  So on an input on which the
\* classifier returns no non-blank line is skipped or duplicated.
C12_EveryLineInOneBlock ==
  [][/\ (AtLoop /\ i' > i)
        => /\ \/ blocks' = blocks
              \/ /\ Len(blocks') = Len(blocks) + 1
                 /\ SubSeq(blocks', 1, Len(blocks)) = blocks
           /\ \A k \in i..Min({i' - 1, Len(CurLines) - 1}) : LineAccounted(k)
     /\ (ppc = "loop" /\ ppc' = "done" /\ blocks # <<>>)
        => result'.blocks = blocks]_vars

\* a call that returned three blocks of three kinds for three lines
C12_Witness ==
  /\ ppc = "done"
  /\ Len(CurLines) = 3
  /\ Len(result.blocks) = 3
  /\ result.blocks[1].type = "command"
  /\ result.blocks[2].type = "text"
  /\ result.blocks[3].type = "math"

\* the fence the current iteration opens: its declared language and the
\* lines of its body
DeclaredLanguage == Trim(SubSeq(CurLine, 4, Len(CurLine)))

FenceBody == Slice(CurLines, i + 1, FenceEnd(CurLines, i + 1))

OpensFenceWithBody == AtLoop /\ StartsWith(CurLine, Fence) /\ Len(FenceBody) > 0

\* the shell-family names as the specification lists them, and with the
\* name "shell" the code also accepts
ListedShellNames ==
  {<<"b","a","s","h">>, <<"s","h">>, <<"z","s","h">>, <<"f","i","s","h">>, <<"c","m","d">>,
   <<"p","o","w","e","r","s","h","e","l","l">>}

ShellNamesWithShell == ListedShellNames \cup {<<"s","h","e","l","l">>}

FenceBlockFor(names) ==
  /\ Len(blocks') = Len(blocks) + 1
  /\ LastBlock(blocks').content = Join(FenceBody, <<NL>>)
  /\ LastBlock(blocks').type =
       IF ToLowerCase(DeclaredLanguage) \in names THEN "command" ELSE "code"
  /\ LastBlock(blocks').language =
       IF DeclaredLanguage = <<>> THEN TextLanguage ELSE DeclaredLanguage
  /\ DeclaredLanguage = <<>> => LastBlock(blocks').type = "code"

\* C13 (as stated): a fenced block with at least one body line has kind
\* command if and only if its declared language, compared case-insensitively,
\* is one of bash, sh, zsh, fish, cmd, powershell, and kind code otherwise;
\* with no declared language the language is "text" and the kind is code.
C13_FenceKindAsStated == [][OpensFenceWithBody => FenceBlockFor(ListedShellNames)]_vars

\* C13 (amended): the same with "shell" among the shell-family names.
C13_FenceKindFollowsLanguage ==
  [][OpensFenceWithBody => FenceBlockFor(ShellNamesWithShell)]_vars

\* a call that returned a command block for a fence declared "Sh" with a
\* body line
C13_Witness ==
  /\ ppc = "done"
  /\ Len(result.blocks) = 1
  /\ result.blocks[1].type = "command"
  /\ result.blocks[1].language = <<"S", "h">>
  /\ result.blocks[1].content = <<"a", "b">>

\* a save of a send or of a stream event met the quota: the writes that were
\* to throw have thrown, and cleanupOldConversations has run
QuotaHit == quotaFailures > 0 /\ quotaFailures' = 0 /\ userOps' = userOps

HasRecords(storage) == StoredRecords(storage) # {}

IsNewest(storage, m, c) ==
  /\ storage.rec[m][c].present
  /\ Max(StampsOf(storage.rec[m][c].turns)) = Max(AllStamps(storage.rec))

\* C14: when a save has met the quota and the eviction has run, the
\* conversation with the most recent timestamp of all models (the one just
\* saved if the retry succeeded, else the one that was the most recent) is
\* still in the store and loads.
C14_NewestSurvivesEviction ==
  [][(QuotaHit /\ HasRecords(localStorage))
       => \E m \in Models, c \in ConvIds :
            /\ IsNewest(localStorage', m, c) \/ IsNewest(localStorage, m, c)
            /\ Len(loadConversationData(localStorage', m, c)) > 0]_vars

\* the conversations the statement has evicted: the lowest third of the
\* stored conversations in key order, at least one
OldestThird(storage) ==
  {SortKeys(StoredRecords(storage))[k] :
     k \in 1..Min({Cardinality(StoredRecords(storage)),
                   Max({1, Cardinality(StoredRecords(storage)) \div 3})})}

\* C15: a save that meets the quota evicts the oldest third of the stored
\* conversations (lowest in key order, at least one) and nothing else, and
\* retries once; when the retry fails too the storage-full error is shown
\* and nothing is thrown.
C15_QuotaEvictsOldestThird ==
  [][QuotaHit
       => /\ ~crashed'
          /\ quotaFailures = 2 => error' = StorageFullError
          /\ \A m \in Models : localStorage.cur[m] # 0 => localStorage'.cur[m] # 0
          /\ \A k \in StoredRecords(localStorage) \ OldestThird(localStorage) :
                localStorage'.rec[k.m][k.c].present
          /\ quotaFailures = 2
               => \A k \in OldestThird(localStorage) : ~localStorage'.rec[k.m][k.c].present]_vars

\* the delete button removed the record of (m, c): no eviction ran
DeletedIn(m, c) ==
  /\ localStorage.rec[m][c].present
  /\ ~localStorage'.rec[m][c].present
  /\ quotaFailures' = quotaFailures

SameRecord(before, after) ==
  /\ after.present = before.present
  /\ WithoutTimestamp(after.turns) = WithoutTimestamp(before.turns)

\* C16: deleting the conversation (m, c) removes its record and, when c is
\* the stored current pointer of m, the pointer too, whichever model is
\* selected; every other record and pointer stays as it was.
C16_DeleteRemovesRecordAndPointer ==
  [][\A m \in Models, c \in ConvIds :
       DeletedIn(m, c)
         => /\ localStorage'.cur[m] = IF localStorage.cur[m] = c THEN 0 ELSE localStorage.cur[m]
            /\ \A other \in Models \ {m} : localStorage'.cur[other] = localStorage.cur[other]
            /\ \A mc \in (Models \X ConvIds) \ {<<m, c>>} :
                 SameRecord(localStorage.rec[mc[1]][mc[2]], localStorage'.rec[mc[1]][mc[2]])]_vars

\* the records of the store that hold at least one turn
NonEmptyRecords == {k \in StoredRecords(localStorage) : Len(localStorage.rec[k.m][k.c].turns) > 0}

ListsRecord(meta, k) ==
  /\ meta.modelString = ModelString(k.m)
  /\ meta.conversationId = generateConversationId(k.c)
  /\ meta.messageCount = Len(localStorage.rec[k.m][k.c].turns)
  /\ meta.timestamp = Max(StampsOf(localStorage.rec[k.m][k.c].turns))

\* C17: getAllConversations returns exactly one entry for every stored
\* record of a model and a conversation that holds at least one turn, none
\* for a record without turns and none for a '-current' key, newest first by
\* the latest timestamp of the turns; and no record without turns is ever
\* in the store.
C17_HistoryListsEveryConversation ==
  /\ Len(getAllConversations(localStorage)) = Cardinality(NonEmptyRecords)
  /\ \A k \in NonEmptyRecords :
       Cardinality({n \in 1..Len(getAllConversations(localStorage)) :
                      ListsRecord(getAllConversations(localStorage)[n], k)}) = 1
  /\ \A n \in 1..(Len(getAllConversations(localStorage)) - 1) :
       getAllConversations(localStorage)[n].timestamp
         >= getAllConversations(localStorage)[n + 1].timestamp
  /\ \A m \in Models, c \in ConvIds :
       localStorage.rec[m][c].present => Len(localStorage.rec[m][c].turns) > 0

\* a store with conversations of both models, saved at different times, and
\* a current pointer
C17_Witness ==
  /\ \E c, d \in ConvIds :
       /\ localStorage.rec["m1"][c].present
       /\ localStorage.rec["m2"][d].present
       /\ Max(StampsOf(localStorage.rec["m1"][c].turns))
            < Max(StampsOf(localStorage.rec["m2"][d].turns))
  /\ localStorage.cur["m1"] # 0
  /\ Len(getAllConversations(localStorage)) >= 2

\* the list a load is to return for a saved list: the same turns in the same
\* order, without the generated image of the assistant
AsSaved(history) == [k \in 1..Len(history) |-> [history[k] EXCEPT !.assistant.image = FALSE]]

\* C18: saving the non-empty list in memory for any model and conversation
\* and loading that conversation again gives the list turn for turn in the
\* same order, without the assistant's generated image and without a
\* timestamp field.
C18_SaveThenLoadRoundTrips ==
  Len(chatHistory) > 0
    => \A m \in Models, c \in ConvIds :
         loadConversationData(setItems(localStorage, m, c, chatHistory), m, c)
           = AsSaved(chatHistory)

\* the open conversation, which holds a generated image and an attached
\* image, is in the store as it loads
C18_Witness ==
  /\ selectedModel # NoModel
  /\ currentConversationId # 0
  /\ \E k \in 1..Len(chatHistory) : chatHistory[k].assistant.image
  /\ loadConversationData(localStorage, selectedModel, currentConversationId)
       = AsSaved(chatHistory)

\* C19: a send with no model selected sets the 'select a model' error and
\* changes nothing else.
C19_SendWithoutModelOnlySetsError ==
  [][(selectedModel = NoModel /\ Send)
       => /\ error' = SelectModelError
          /\ UNCHANGED <<selectedModel, newChat, ragEnabled, chatHistory, isLoading,
                          streamingRef, currentConversationId,
                          isLoadingExistingConversation, flagTimers, streamingBuffer,
                          debounceTimeout, ws, rag, localStorage, nextTid, nextConv,
                          userOps, crashed, hung, quotaFailures, pageConversationId,
                          historyConversationId, conversations>>]_vars

\* a send was rejected for want of a model
C19_Witness ==
  /\ selectedModel = NoModel
  /\ error = SelectModelError
  /\ chatHistory = <<>>
  /\ ~isLoading

SentImage == chatHistory'[Len(chatHistory')].user.image

StreamOpened == \E s \in Tids : ws[s].status = "unused" /\ ws'[s].status = "open"

RAGCalled == Len(rag') = Len(rag) + 1

\* C20: a send that is accepted takes exactly one path, RAG if and only if
\* RAG is enabled and no image is attached and streaming otherwise; a RAG
\* send opens no stream and leaves the streaming buffer alone; a send with
\* an image does not call RAG.
C20_SendTakesOnePath ==
  [][(selectedModel # NoModel /\ Send)
       => /\ RAGCalled # StreamOpened
          /\ RAGCalled <=> (ragEnabled /\ ~SentImage)
          /\ RAGCalled => UNCHANGED <<ws, streamingRef, streamingBuffer, debounceTimeout>>
          /\ SentImage => ~RAGCalled /\ StreamOpened]_vars

\* with RAG enabled, one send went to RAG and one, with an image, to a stream
C20_Witness ==
  /\ ragEnabled
  /\ Len(chatHistory) = 2
  /\ ~chatHistory[1].user.image
  /\ chatHistory[1].assistant.content.kind = "parsed"
  /\ chatHistory[2].user.image
  /\ ws[2].status = "open"
  /\ rag = <<>>

\* C21: while a turn accumulates, the display is flushed within one debounce
\* delay (50 ms) of the arrival of the oldest fragment not yet flushed,
\* however many fragments arrive in the meantime.
C21_FlushWithinOneDelay ==
  \A s \in Tids :
     (InFlight(s) /\ debounceTimeout = s) => unflushedAge <= DebounceDelay

\* C22: a turn is written to the store only when its stream has ended: no
\* stored record holds a turn whose stream is still accumulating (its content
\* the empty placeholder or a part of the buffer).
C22_StoreHoldsOnlyEndedTurns ==
  \A m \in Models, c \in ConvIds :
     \A k \in 1..Len(localStorage.rec[m][c].turns) :
        ~InFlight(localStorage.rec[m][c].turns[k].tid)

IsPrefix(p, whole) == Len(p) <= Len(whole) /\ SubSeq(whole, 1, Len(p)) = p

\* C23: until end-of-stream is signalled for a stream, the content on display
\* for the stream's turn is a raw string, the concatenation in arrival order of
\* the first k fragments of that stream for some k, and never a classified
\* content.
C23_DisplayIsPrefixOfStream ==
  \A s \in Tids :
     (InFlight(s) /\ HasTurn(chatHistory, s))
     => /\ TurnOf(chatHistory, s).assistant.content.kind = "string"
        /\ IsPrefix(TurnOf(chatHistory, s).assistant.content.text, ws[s].received)

\* the terminal notifications the consumer of stream s has had: the done
\* message (final) and the close callback; error callbacks are not counted
FinalDelivered(s) == ws[s].done

CloseDelivered(s) == ws[s].status = "closed"

\* C24: each stream delivers exactly one terminal notification (final, error
\* or close) and nothing after it: a stream that has delivered its final
\* message delivers no close notification, and the other way round.
C24_OneTerminalNotification ==
  \A s \in Tids : ~(FinalDelivered(s) /\ CloseDelivered(s))

\* a stream is opened in this step
Opens(s) == ws[s].status = "unused" /\ ws'[s].status = "open"

NonEmptyContent(value) == value.kind = "parsed" \/ value.text # <<>>

\* the raw string of a content: the string itself, or the rawContent of a
\* classified content
RawString(value) == IF value.kind = "parsed" THEN value.parsed.rawContent ELSE value.text

\* the number of messages the first k turns of a list take
RECURSIVE MessagesOfTurns(_, _)
MessagesOfTurns(history, k) ==
  IF k = 0 THEN 0
  ELSE MessagesOfTurns(history, k - 1)
       + (IF NonEmptyContent(history[k].assistant.content) THEN 2 ELSE 1)

IsUserMessage(message, user) ==
  /\ message.role = "user"
  /\ message.content.text = user.text
  /\ message.content.kind = IF user.image THEN "parts" ELSE "string"

IsAssistantMessage(message, value) ==
  /\ message.role = "assistant"
  /\ message.content = [kind |-> "string", text |-> RawString(value), parsed |-> NoResult]

\* list is the prior turns followed by the new user message
IsConversation(list, history, user) ==
  /\ Len(list) = MessagesOfTurns(history, Len(history)) + 1
  /\ \A k \in 1..Len(history) :
        /\ IsUserMessage(list[MessagesOfTurns(history, k - 1) + 1], history[k].user)
        /\ NonEmptyContent(history[k].assistant.content)
           => IsAssistantMessage(list[MessagesOfTurns(history, k - 1) + 2],
                                 history[k].assistant.content)
  /\ IsUserMessage(list[Len(list)], user)

\* C25: the message list of a send holds a system message if and only if
\* systemPrompt is not empty; then for each prior turn its user message
\* followed, when the turn's assistant content is not empty, by an assistant
\* message whose content is the raw string (the rawContent of a classified
\* turn, never its blocks); and the new user message last.
C25_MessageListOfSend ==
  [][\A s \in Tids :
       Opens(s)
       => /\ (\E j \in 1..Len(ws'[s].messages) : ws'[s].messages[j].role = "system")
             <=> systemPrompt # <<>>
          /\ systemPrompt # <<>>
             => /\ ws'[s].messages[1] = [role |-> "system", content |-> Str(systemPrompt)]
                /\ IsConversation(Tail(ws'[s].messages), chatHistory,
                                  chatHistory'[Len(chatHistory')].user)
          /\ systemPrompt = <<>>
             => IsConversation(ws'[s].messages, chatHistory,
                               chatHistory'[Len(chatHistory')].user)]_vars

\* a send with a system prompt after a classified turn and an empty one
C25_Witness ==
  \E s \in Tids :
     /\ ws[s].status = "open"
     /\ Len(ws[s].messages) = 5
     /\ ws[s].messages[1].role = "system"
     /\ ws[s].messages[3].role = "assistant"
     /\ ws[s].messages[3].content.text = <<"a">>
     /\ ws[s].messages[4].role = "user"
     /\ chatHistory[1].assistant.content.kind = "parsed"

\* the stream opened last
IsNewestStream(s) ==
  ws[s].status # "unused" /\ \A other \in Tids : other > s => ws[other].status = "unused"

\* C26: the stream reference and the loading flag describe the newest stream:
\* while it is in flight streamingRef refers to it and the component is
\* loading, whatever callbacks of earlier streams arrive.
C26_RefAndLoadingFollowNewestStream ==
  \A s \in Tids :
     (IsNewestStream(s) /\ InFlight(s)) => (streamingRef = s /\ isLoading)

\* a stream whose close callback is still to come, or a RAG call not settled
WorkPending == (\E s \in Tids : ws[s].status \in {"open", "closing"}) \/ rag # <<>>

\* C27: the component is never left loading with no stream in flight and
\* no RAG call pending: the terminal event of the transport, or the RAG call
\* settling, resets the loading state.
C27_LoadingHasWorkPending == isLoading => WorkPending

\* the history list as the panel would show it: the conversations, newest first
Listing(storage) ==
  [k \in 1..Len(getAllConversations(storage)) |->
     <<getAllConversations(storage)[k].modelString,
       getAllConversations(storage)[k].conversationId>>]

\* the conversation on display is a stored one, as loadConversation left it
ViewsStoredConversation ==
  /\ selectedModel # NoModel
  /\ currentConversationId # 0
  /\ Len(chatHistory) > 0
  /\ chatHistory = loadConversationData(localStorage, selectedModel, currentConversationId)

\* C28: loading a stored conversation into the ChatInterface leaves its
\* record as it was, turns and timestamps: viewing a conversation does not
\* move it in the newest-first listing.
C28_ViewingKeepsTimestamps ==
  [][((SelectConversation \/ FlagTimeout) /\ ViewsStoredConversation')
     => Listing(localStorage') = Listing(localStorage)]_vars

\* C29: once the conversation (m, c) has been deleted from the history list,
\* no operation writes a record under (m, c) again or sets m's current
\* pointer to c; saves of the list on display do not bring it back.
C29_DeletedIsNotWrittenAgain ==
  [][\A mc \in deleted :
       /\ ~localStorage'.rec[mc[1]][mc[2]].present
       /\ localStorage'.cur[mc[1]] = mc[2] => localStorage.cur[mc[1]] = mc[2]]_vars

\* C30: every model string m under which a conversation is stored satisfies
\* getModelString(parseModelString(m)) = m, so that selecting the stored
\* conversation selects a model whose storage scope is the one the
\* conversation is stored under.
C30_ModelStringRoundTrips ==
  storedModelString # Undefined
  => getModelString(parseModelString(storedModelString)) = storedModelString
====
